---- MODULE Spec2Model ----
(***************************************************************************)
(* adobo.IO.load_from_file: loading a raw read-count matrix.               *)
(*                                                                         *)
(* A text token (a field of the file, a label) is a tuple of one-character *)
(* strings, so that quote stripping, the control-probe pattern and the     *)
(* type inference of the parser are computed character by character.       *)
(* The data frame exp_mat is a record: index (row labels), index_dtype,    *)
(* columns (column labels), dtypes (one per column), data (one tuple of    *)
(* fields per row) and line (the file line each row came from).  A field   *)
(* of an int64 column stands for the integer ToInt(field).                 *)
(*                                                                         *)
(* The call modelled is the default one: sep='\s' (a regular expression,   *)
(* so the parser splits lines without any quote handling and a quote       *)
(* character stays part of its field), header=0, no extra arguments.       *)
(***************************************************************************)
EXTENDS Integers, Sequences, FiniteSets, TLC

VARIABLES pc, filename_exists, column_id, verbose, file, exp_mat,
          error, obj, printed, stages

vars == <<pc, filename_exists, column_id, verbose, file, exp_mat,
          error, obj, printed, stages>>

\* Largest number of data lines of an input file.
MaxRows == 2

----------------------------------------------------------------------------
(* Characters and tokens *)

QUOTE == "\""

DigitSeq == <<"0", "1", "2", "3", "4", "5", "6", "7", "8", "9">>

Digits == {DigitSeq[i] : i \in 1..Len(DigitSeq)}

DigitVal(c) == (CHOOSE i \in 1..Len(DigitSeq) : DigitSeq[i] = c) - 1

UpperCase == <<"A", "B", "C", "D", "E", "F", "G", "H", "I", "J", "K", "L", "M",
               "N", "O", "P", "Q", "R", "S", "T", "U", "V", "W", "X", "Y", "Z">>

LowerCase == <<"a", "b", "c", "d", "e", "f", "g", "h", "i", "j", "k", "l", "m",
               "n", "o", "p", "q", "r", "s", "t", "u", "v", "w", "x", "y", "z">>

\* case folding of one character (re.IGNORECASE)
lower(c) ==
    IF \E i \in 1..Len(UpperCase) : UpperCase[i] = c
    THEN LowerCase[CHOOSE i \in 1..Len(UpperCase) : UpperCase[i] = c]
    ELSE c

IsDigits(t) == Len(t) > 0 /\ \A i \in 1..Len(t) : t[i] \in Digits

\* the token parses as an integer: an optional minus sign, then digits
IsIntText(t) ==
    IF Len(t) > 0 /\ t[1] = "-" THEN IsDigits(Tail(t)) ELSE IsDigits(t)

\* the token parses as a decimal fraction: integer part, a point, digits
IsFloatText(t) ==
    \E k \in 1..Len(t) :
        /\ t[k] = "."
        /\ IsIntText(SubSeq(t, 1, k - 1))
        /\ IsDigits(SubSeq(t, k + 1, Len(t)))

RECURSIVE DigitsToInt(_)
DigitsToInt(t) ==
    IF Len(t) = 0 THEN 0
    ELSE 10 * DigitsToInt(SubSeq(t, 1, Len(t) - 1)) + DigitVal(t[Len(t)])

\* the integer an integer token denotes
ToInt(t) == IF t[1] = "-" THEN 0 - DigitsToInt(Tail(t)) ELSE DigitsToInt(t)

\* the token of a RangeIndex label
IntText(n) == <<DigitSeq[n + 1]>>

\* type the parser gives a column of tokens
infer_dtype(col) ==
    IF \A i \in 1..Len(col) : IsIntText(col[i]) THEN "int64"
    ELSE IF \A i \in 1..Len(col) : IsIntText(col[i]) \/ IsFloatText(col[i])
         THEN "float64"
         ELSE "object"

----------------------------------------------------------------------------
(* Input files *)

GeneA == <<"G", "e", "n", "e", "A">>
qGeneA == <<QUOTE, "G", "e", "n", "e", "A", QUOTE>>
ArrayControl7 == <<"A", "r", "r", "a", "y", "C", "o", "n", "t", "r", "o", "l", "-", "7">>
arraycontrol3 == <<"a", "r", "r", "a", "y", "c", "o", "n", "t", "r", "o", "l", "-", "3">>
qArrayControl7 == <<QUOTE>> \o ArrayControl7 \o <<QUOTE>>
gene == <<"g", "e", "n", "e">>
cell1 == <<"c", "e", "l", "l", "1">>
qcell1 == <<QUOTE, "c", "e", "l", "l", "1", QUOTE>>

\* tokens of the first field of a data line
FirstFields ==
    {GeneA, qGeneA, ArrayControl7, arraycontrol3, qArrayControl7,
     <<"7">>, <<"2", ".", "5">>}

\* tokens of the second field of a data line
ValueFields == {<<"3">>, <<"-", "1">>, <<"2", ".", "5">>}

\* header lines: with and without a column ID over the first field
Headers == {<<gene, cell1>>, <<gene, qcell1>>, <<cell1>>, <<qcell1>>}

DataLines == {<<a, b>> : a \in FirstFields, b \in ValueFields}

Files ==
    UNION {[header : Headers, rows : [1..n -> DataLines]] : n \in 1..MaxRows}

NoFile == [header |-> <<>>, rows |-> <<>>]

----------------------------------------------------------------------------
(* Data frames *)

NoFrame ==
    [index |-> <<>>, index_dtype |-> "none", columns |-> <<>>,
     dtypes |-> <<>>, data |-> <<>>, line |-> <<>>]

Column(rows, j) == [i \in 1..Len(rows) |-> rows[i][j]]

\* pd.read_csv: a header with one field fewer than the data lines makes the
\* first field of every line the row label; otherwise rows are numbered.
read_csv(f) ==
    LET n == Len(f.rows)
        implicit == Len(f.rows[1]) = Len(f.header) + 1
        body == IF implicit THEN [i \in 1..n |-> Tail(f.rows[i])] ELSE f.rows
    IN  [index |-> IF implicit THEN Column(f.rows, 1)
                   ELSE [i \in 1..n |-> IntText(i - 1)],
         index_dtype |-> IF implicit THEN infer_dtype(Column(f.rows, 1))
                         ELSE "range",
         columns |-> f.header,
         dtypes |-> [j \in 1..Len(f.header) |-> infer_dtype(Column(body, j))],
         data |-> body,
         line |-> [i \in 1..n |-> i]]

move_col(x) ==
    [index |-> Column(x.data, 1),
     index_dtype |-> x.dtypes[1],
     columns |-> Tail(x.columns),
     dtypes |-> Tail(x.dtypes),
     data |-> [i \in 1..Len(x.data) |-> Tail(x.data[i])],
     line |-> x.line]

\* Index.duplicated('first'): only the later occurrences are marked
duplicated_keep_first(index) ==
    [i \in 1..Len(index) |->
        \E j \in 1..Len(index) : j < i /\ index[j] = index[i]]

\* Index.duplicated(False): every occurrence of a repeated label is marked
duplicated(index) ==
    [i \in 1..Len(index) |->
        \E j \in 1..Len(index) : j # i /\ index[j] = index[i]]

RECURSIVE Positions(_, _)
\* the positions of mask that hold TRUE, in increasing order, from k on
Positions(mask, k) ==
    IF k > Len(mask) THEN <<>>
    ELSE IF mask[k] THEN <<k>> \o Positions(mask, k + 1)
         ELSE Positions(mask, k + 1)

\* boolean row selection: x.iloc[mask] and x[mask]
select_rows(x, mask) ==
    LET keep == Positions(mask, 1)
    IN  [x EXCEPT !.index = [i \in 1..Len(keep) |-> x.index[keep[i]]],
                  !.data = [i \in 1..Len(keep) |-> x.data[keep[i]]],
                  !.line = [i \in 1..Len(keep) |-> x.line[keep[i]]]]

logical_not(mask) == [i \in 1..Len(mask) |-> ~mask[i]]

CountTrue(mask) == Len(Positions(mask, 1))

\* a check of the values that remain instead of the column types
non_count_remaining(x) ==
    \E i \in 1..Len(x.data) : \E j \in 1..Len(x.data[i]) : ~IsIntText(x.data[i][j])

non_count(x) == \E j \in 1..Len(x.dtypes) : x.dtypes[j] # "int64"

ControlPattern ==
    <<"A", "r", "r", "a", "y", "C", "o", "n", "t", "r", "o", "l", "-">>

\* str.contains('^ArrayControl-[0-9]+', regex=True, case=False) on one label
contains(s) ==
    /\ Len(s) > Len(ControlPattern)
    /\ \A i \in 1..Len(ControlPattern) : lower(s[i]) = lower(ControlPattern[i])
    /\ s[Len(ControlPattern) + 1] \in Digits

\* str.replace('"', '', 1) on one label: only the first quote goes
str_replace_once(s) ==
    IF \E i \in 1..Len(s) : s[i] = QUOTE
    THEN LET k == CHOOSE i \in 1..Len(s) :
                      s[i] = QUOTE /\ \A m \in 1..(i - 1) : s[m] # QUOTE
         IN  SubSeq(s, 1, k - 1) \o SubSeq(s, k + 1, Len(s))
    ELSE s

\* str.replace('"', '') on one label
str_replace(s) == SelectSeq(s, LAMBDA c : c # QUOTE)

\* the .str accessor exists only on an index of strings
has_str(x) == x.index_dtype = "object"

\* lines 65-69: which frames get move_col
resolve_orientation(x, mode) ==
    IF mode = "auto"
    THEN IF x.dtypes[1] # "int64" THEN move_col(x) ELSE x
    ELSE IF mode = "yes" THEN move_col(x) ELSE x

\* lines 72-74
remove_duplicates(x) ==
    LET dups == duplicated(x.index)
    IN  IF \E i \in 1..Len(dups) : dups[i]
        THEN select_rows(x, logical_not(dups))
        ELSE x

\* lines 79-80, on an index of strings
remove_controls(x) ==
    LET rem == [i \in 1..Len(x.index) |-> contains(x.index[i])]
    IN  select_rows(x, logical_not(rem))

\* lines 81-82
sanitize(x) ==
    [x EXCEPT !.index = [i \in 1..Len(x.index) |-> str_replace(x.index[i])],
              !.columns = [j \in 1..Len(x.columns) |-> str_replace(x.columns[j])]]

----------------------------------------------------------------------------
(* Errors and messages *)

NoError == [kind |-> "", msg |-> ""]
NotFound == [kind |-> "Exception", msg |-> "not found"]
BadColumnId == [kind |-> "Exception", msg |-> "column_id can only be set to auto, yes or no"]
NonCount == [kind |-> "Exception", msg |-> "Non-count values detected in data matrix."]
NoStrAccessor == [kind |-> "AttributeError", msg |-> "Can only use .str accessor with string values"]

NoDataset == [set |-> FALSE, exp_mat |-> NoFrame, verbose |-> FALSE]

----------------------------------------------------------------------------
(* load_from_file, statement by statement *)

Init ==
    /\ pc = "check_path"
    /\ filename_exists \in BOOLEAN
    /\ column_id \in {"auto", "yes", "no", "both"}
    /\ verbose \in BOOLEAN
    /\ file = NoFile
    /\ exp_mat = NoFrame
    /\ error = NoError
    /\ obj = NoDataset
    /\ printed = <<>>
    /\ stages = <<>>

\* the existence test left out
CheckPath_unchecked ==
    /\ pc = "check_path"
    /\ stages' = Append(stages, "check_path")
    /\ pc' = "check_mode"
    /\ UNCHANGED <<filename_exists, column_id, verbose, file, exp_mat, error, obj, printed>>

CheckPath ==
    /\ pc = "check_path"
    /\ stages' = Append(stages, "check_path")
    /\ IF ~filename_exists
       THEN pc' = "failed" /\ error' = NotFound
       ELSE pc' = "check_mode" /\ error' = error
    /\ UNCHANGED <<filename_exists, column_id, verbose, file, exp_mat, obj, printed>>

CheckMode ==
    /\ pc = "check_mode"
    /\ stages' = Append(stages, "check_mode")
    /\ IF column_id \notin {"auto", "yes", "no"}
       THEN pc' = "failed" /\ error' = BadColumnId
       ELSE pc' = "parse" /\ error' = error
    /\ UNCHANGED <<filename_exists, column_id, verbose, file, exp_mat, obj, printed>>

Parse ==
    /\ pc = "parse"
    /\ stages' = Append(stages, "parse")
    /\ \E f \in Files :
          /\ file' = f
          /\ exp_mat' = read_csv(f)
    /\ pc' = "resolve_orientation"
    /\ UNCHANGED <<filename_exists, column_id, verbose, error, obj, printed>>

ResolveOrientation ==
    /\ pc = "resolve_orientation"
    /\ stages' = Append(stages, "resolve_orientation")
    /\ exp_mat' = resolve_orientation(exp_mat, column_id)
    /\ pc' = "deduplicate"
    /\ UNCHANGED <<filename_exists, column_id, verbose, file, error, obj, printed>>

\* the row removal placed under "if verbose"
Deduplicate_when_verbose ==
    /\ pc = "deduplicate"
    /\ stages' = Append(stages, "deduplicate")
    /\ exp_mat' = IF verbose THEN remove_duplicates(exp_mat) ELSE exp_mat
    /\ LET dups == duplicated(exp_mat.index)
       IN  printed' =
              IF verbose /\ \E i \in 1..Len(dups) : dups[i]
              THEN Append(printed, <<"duplicated genes detected and removed", CountTrue(dups)>>)
              ELSE printed
    /\ pc' = "validate"
    /\ UNCHANGED <<filename_exists, column_id, verbose, file, error, obj>>

Deduplicate ==
    /\ pc = "deduplicate"
    /\ stages' = Append(stages, "deduplicate")
    /\ exp_mat' = remove_duplicates(exp_mat)
    /\ LET dups == duplicated(exp_mat.index)
       IN  printed' =
              IF verbose /\ \E i \in 1..Len(dups) : dups[i]
              THEN Append(printed, <<"duplicated genes detected and removed", CountTrue(dups)>>)
              ELSE printed
    /\ pc' = "validate"
    /\ UNCHANGED <<filename_exists, column_id, verbose, file, error, obj>>

Validate ==
    /\ pc = "validate"
    /\ stages' = Append(stages, "validate")
    /\ IF non_count(exp_mat)
       THEN pc' = "failed" /\ error' = NonCount
       ELSE pc' = "filter_controls" /\ error' = error
    /\ UNCHANGED <<filename_exists, column_id, verbose, file, exp_mat, obj, printed>>

FilterControls ==
    /\ pc = "filter_controls"
    /\ stages' = Append(stages, "filter_controls")
    /\ IF ~has_str(exp_mat)
       THEN pc' = "failed" /\ error' = NoStrAccessor /\ exp_mat' = exp_mat
       ELSE /\ exp_mat' = remove_controls(exp_mat)
            /\ pc' = "sanitize_labels"
            /\ error' = error
    /\ UNCHANGED <<filename_exists, column_id, verbose, file, obj, printed>>

SanitizeLabels ==
    /\ pc = "sanitize_labels"
    /\ stages' = Append(stages, "sanitize_labels")
    /\ exp_mat' = sanitize(exp_mat)
    /\ pc' = "assemble"
    /\ UNCHANGED <<filename_exists, column_id, verbose, file, error, obj, printed>>

Assemble ==
    /\ pc = "assemble"
    /\ stages' = Append(stages, "assemble")
    /\ obj' = [set |-> TRUE, exp_mat |-> exp_mat, verbose |-> verbose]
    /\ printed' = IF verbose
                  THEN Append(printed, <<"genes and cells were loaded",
                                         Len(exp_mat.index), Len(exp_mat.columns)>>)
                  ELSE printed
    /\ pc' = "done"
    /\ UNCHANGED <<filename_exists, column_id, verbose, file, exp_mat, error>>

Next ==
    \/ CheckPath
    \/ CheckMode
    \/ Parse
    \/ ResolveOrientation
    \/ Deduplicate
    \/ Validate
    \/ FilterControls
    \/ SanitizeLabels
    \/ Assemble

Spec == Init /\ [][Next]_vars

----------------------------------------------------------------------------
(* The whole call as one function of its inputs other than verbose *)

load_from_file(exists, mode, f) ==
    IF ~exists THEN [error |-> NotFound, set |-> FALSE, exp_mat |-> NoFrame]
    ELSE IF mode \notin {"auto", "yes", "no"}
    THEN [error |-> BadColumnId, set |-> FALSE, exp_mat |-> NoFrame]
    ELSE LET x == remove_duplicates(resolve_orientation(read_csv(f), mode))
         IN  IF non_count(x)
             THEN [error |-> NonCount, set |-> FALSE, exp_mat |-> NoFrame]
             ELSE IF ~has_str(x)
             THEN [error |-> NoStrAccessor, set |-> FALSE, exp_mat |-> NoFrame]
             ELSE [error |-> NoError, set |-> TRUE,
                   exp_mat |-> sanitize(remove_controls(x))]

----------------------------------------------------------------------------
(* Vocabulary of the properties *)

StageOrder ==
    <<"check_path", "check_mode", "parse", "resolve_orientation", "deduplicate",
      "validate", "filter_controls", "sanitize_labels", "assemble">>

Ran(stage) == \E k \in 1..Len(stages) : stages[k] = stage

Returned == obj.set

Terminal == pc \in {"done", "failed"}

Width == Len(file.rows[1])

\* the parsed table, before orientation resolution
Parsed == read_csv(file)

\* the file field the row labels of frame x were taken from (0: none)
LabelField(x) == Width - Len(x.columns)

\* the label a line of the file carries when field k holds the labels
InputLabel(i, k) == file.rows[i][k]

\* occurrences of the label of line i among the labels of the file
Occurrences(i, k) ==
    Cardinality({m \in 1..Len(file.rows) : InputLabel(m, k) = InputLabel(i, k)})

RECURSIVE WithoutQuotes(_)
\* s with every double quote left out, the other characters in order
WithoutQuotes(s) ==
    IF Len(s) = 0 THEN <<>>
    ELSE IF Head(s) = QUOTE THEN WithoutQuotes(Tail(s))
         ELSE <<Head(s)>> \o WithoutQuotes(Tail(s))

----------------------------------------------------------------------------
\* C1: the row labels of a returned dataset are pairwise unique, as they are
\* in the dataset (after quote stripping).
C1_UniqueRowLabels ==
    Returned =>
        \A i, j \in 1..Len(obj.exp_mat.index) :
            i # j => obj.exp_mat.index[i] # obj.exp_mat.index[j]

\* C2: no row label of a returned dataset matches ^ArrayControl-[0-9]+
\* case-insensitively, the labels taken as they are in the dataset.
C2_NoControlLabels ==
    Returned =>
        \A i \in 1..Len(obj.exp_mat.index) : ~contains(obj.exp_mat.index[i])

\* C3: every value of a returned dataset is an integer >= 0 (a value that is
\* not makes the load fail with the non-count error).
C3_ValuesAreCounts ==
    Returned =>
        \A i \in 1..Len(obj.exp_mat.data) : \A j \in 1..Len(obj.exp_mat.data[i]) :
            /\ IsIntText(obj.exp_mat.data[i][j])
            /\ ToInt(obj.exp_mat.data[i][j]) >= 0

\* the lines of the file that take part in no duplicate and are no control
\* probe, for the labels held by field k
Kept(k) ==
    {i \in 1..Len(file.rows) :
        Occurrences(i, k) = 1 /\ ~contains(InputLabel(i, k))}

C5_DuplicateLaw ==
    Returned =>
        LET x == obj.exp_mat
            k == LabelField(x)
        IN  /\ k > 0
            /\ \A i \in 1..Len(file.rows) :
                  /\ Occurrences(i, k) >= 2 =>
                        ~\E r \in 1..Len(x.line) : x.line[r] = i
                  /\ (Occurrences(i, k) = 1 /\ ~contains(InputLabel(i, k))) =>
                        \E r \in 1..Len(x.line) :
                            /\ x.line[r] = i
                            /\ x.data[r] = SubSeq(file.rows[i], k + 1, Width)
                            /\ \A m \in 1..Len(x.line) : x.line[m] = i => m = r

\* the first column was promoted by move_col and one identifier occurs twice
C5_Witness ==
    /\ Returned
    /\ column_id \in {"auto", "yes"}
    /\ Len(file.header) = Width
    /\ LabelField(obj.exp_mat) = 1
    /\ \E i \in 1..Len(file.rows) : Occurrences(i, 1) >= 2

\* C6: in auto mode, a first column of the parsed table holding only integers
\* stays a data column and, unless the values fail the count validation, a
\* dataset with every parsed column is returned; a
\* first column holding a non-integer becomes the row labels and leaves the
\* value matrix.
C6_AutoOrientation ==
    (column_id = "auto" /\ Ran("parse")) =>
        IF \A i \in 1..Len(Parsed.data) : IsIntText(Parsed.data[i][1])
        THEN /\ Ran("resolve_orientation") =>
                    Len(exp_mat.columns) = Len(Parsed.columns)
             /\ (Terminal /\ error # NonCount) =>
                    (Returned /\ Len(obj.exp_mat.columns) = Len(Parsed.columns))
        ELSE Ran("resolve_orientation") =>
                /\ Len(exp_mat.columns) = Len(Parsed.columns) - 1
                /\ pc = "deduplicate" => exp_mat.index = Column(Parsed.data, 1)

\* C7: in mode no, a file whose fields are all non-negative integers loads
\* and the returned matrix keeps the first column as data; in mode yes the
\* first column of the parsed table becomes the row labels whatever it holds.
C7_FixedOrientation ==
    /\ (column_id = "no" /\ Terminal /\ Ran("parse")
          /\ \A i \in 1..Len(file.rows) : \A j \in 1..Width :
                IsIntText(file.rows[i][j]) /\ ToInt(file.rows[i][j]) >= 0)
       => (Returned /\ Len(obj.exp_mat.columns) = Len(Parsed.columns))
    /\ (column_id = "yes" /\ pc = "deduplicate")
       => (exp_mat.index = Column(Parsed.data, 1)
             /\ Len(exp_mat.columns) = Len(Parsed.columns) - 1)

\* the error kind the taxonomy gives the check a load can fail at
KindOfStage(stage) ==
    CASE stage = "check_path" -> "FileNotFound"
      [] stage = "check_mode" -> "InvalidParameter"
      [] stage = "validate" -> "NonCountData"
      [] OTHER -> "other"

C9_QuoteStripping ==
    Returned =>
        LET x == obj.exp_mat
            k == LabelField(x)
        IN  /\ k > 0
            /\ \A r \in 1..Len(x.index) :
                  /\ x.index[r] = WithoutQuotes(InputLabel(x.line[r], k))
                  /\ \A c \in 1..Len(x.index[r]) : x.index[r][c] # QUOTE
            /\ \A j \in 1..Len(x.columns) :
                  /\ x.columns[j] =
                        WithoutQuotes(file.header[Len(file.header) - Len(x.columns) + j])
                  /\ \A c \in 1..Len(x.columns[j]) : x.columns[j][c] # QUOTE

\* a returned dataset with a row label and a column label that carried quotes
C9_Witness ==
    /\ Returned
    /\ \E r \in 1..Len(obj.exp_mat.index) :
          /\ InputLabel(obj.exp_mat.line[r], LabelField(obj.exp_mat)) = qGeneA
          /\ obj.exp_mat.index[r] = GeneA
    /\ file.header[Len(file.header)] = qcell1
    /\ obj.exp_mat.columns = <<cell1>>

\* C10: a load ends either with one dataset, assembled after every stage has
\* run, or with one error and no dataset; after a failure nothing more runs;
\* the outcome and the returned frame do not depend on the verbose flag.
C10_OneOutcome ==
    /\ pc = "done" => (Returned /\ error = NoError /\ stages = StageOrder)
    /\ pc = "failed" =>
          (~Returned /\ obj = NoDataset /\ error # NoError /\ ~ENABLED Next)
    /\ ~Terminal => (~Returned /\ error = NoError)
    /\ Terminal =>
          LET out == load_from_file(filename_exists, column_id, file)
          IN  /\ error = out.error
              /\ Returned = out.set
              /\ Returned => obj.exp_mat = out.exp_mat

\* a verbose load that printed both messages and returned a dataset
C10_Witness ==
    /\ pc = "done"
    /\ verbose
    /\ Len(printed) = 2
    /\ Returned

====
